---- MODULE Spec2Model ----
(***************************************************************************)
(* Token lifecycle of the dater-mobile client: the Token Store             *)
(* (lib/api.ts getToken/setToken/clearToken), the authenticated fetch      *)
(* wrapper withAuthFetch and the domain operations built on it, the Auth   *)
(* Context (lib/auth.tsx), the login form and the tab screens.             *)
(*                                                                         *)
(* Execution model: JavaScript is single threaded.  One action of this     *)
(* module is one run-to-completion step of a handler: the code between two *)
(* awaits that leave the JS thread (a network response, a native           *)
(* secure-store call, a user event).  On the web branch the Token Store    *)
(* functions contain no such await: their continuation is a microtask,     *)
(* which runs before any other event (see MicrotaskPending).               *)
(*                                                                         *)
(* Spec is the running app: startup, the tab screens' loads, login, logout *)
(* and the responses of the service, interleaved.  ApiSpec is lib/api.ts   *)
(* alone: its functions called one at a time, for every operation, status  *)
(* and environment.                                                        *)
(***************************************************************************)
EXTENDS Integers, Sequences, FiniteSets, TLC

\* ---------------------------------------------------------------- values
Null == "null"                       \* JS null: no token, no value
Tokens == {"t1", "t2"}               \* the opaque tokens the service can issue
HeaderValues == Tokens \cup {Null, ""}  \* response.headers.get('Authorization')
Truthy(v) == v # Null /\ v # ""      \* Boolean(v), `if (v)`, `!v` negated

\* ---------------------------------------------------------------- bounds
MaxLoads == 2      \* load invocations a screen can have in progress at once
MaxEvents == 2     \* user events in one run
MaxActive == 2     \* load invocations in progress, on all screens, when the user acts
MaxReorder == 1    \* a response can come from the MaxReorder oldest requests in flight
MaxDateId == 1     \* ids of the date events the service lists
MaxListLen == 3    \* length of the 'all' listing given to the discover filter
MaxListId == 3     \* ids of the events in the listings given to the discover filter
MaxExcluded == 1
MaxImages == 2   \* length of the 'owned' and of the 'requested' listing given to it

\* What a fetch ends with: the HTTP status of the response, or NetworkError
\* when fetch itself rejects
NetworkError == 0
NoStatus == -1     \* no fetch has ended
HttpStatuses == {200, 401, 403, 500}
Statuses == HttpStatuses \cup {NetworkError}
ResponseOk(status) == status >= 200 /\ status < 300      \* response.ok

Screens == {"discover", "myDates", "profile"}
FormScreens == {"discover", "myDates"}     \* the screens that render LoginForm
Slots == 1..MaxLoads

VARIABLES
  platformOS,       \* Platform.OS: "web" or "native"
  hasLocalStorage,  \* typeof localStorage !== 'undefined'
  storage,          \* [localStorage, secureStore]: the value under TOKEN_KEY
  ctxToken,         \* AuthProvider: const [token, setToken] = useState(null)
  providerPc,       \* AuthProvider mount effect: "refreshToken" | "done"
  focus,            \* the focused tab screen
  scr,              \* per screen: the component's useState values
  form,             \* per LoginForm: isLoggingIn, error and handleLogin's position
  task,             \* per screen and slot: position of a load invocation
  call,             \* per screen, slot, index: one withAuthFetch call
  logoutPc,         \* profile "Log out" onPress: "idle" | "clearToken"
  events,           \* user events so far (presses of Login, a tab, Log out)
  storeq,           \* the Token Store calls in progress, in the order made
  netq,             \* the authenticated requests in flight, in the order sent
  flow,             \* the screen outside the tab loads in use, and its handler in progress
  sinceWrite,       \* AuthProvider: a refreshToken has started since the last write of
                    \* the Token Store by the running app (observation only)
  ev                \* what the last step resolved (observation only)

vars == <<platformOS, hasLocalStorage, storage, ctxToken, providerPc, focus,
          scr, form, task, call, logoutPc, events, storeq, netq, flow, sinceWrite, ev>>

\* ------------------------------------------------------------ Token Store
\* variant of getToken: the native branch reads the web slot
getTokenWebSlot(st) ==
  IF platformOS = "web" /\ ~hasLocalStorage THEN Null ELSE st.localStorage

\* api.ts getToken: the value the returned promise resolves to
getToken(st) ==
  IF platformOS = "web"
  THEN IF hasLocalStorage THEN st.localStorage ELSE Null
  ELSE st.secureStore

\* variant of setToken: the native branch does not write
setTokenWebOnly(st, token) ==
  IF platformOS = "web" /\ hasLocalStorage THEN [st EXCEPT !.localStorage = token] ELSE st

\* api.ts setToken: the storage after the call
setToken(st, token) ==
  IF platformOS = "web"
  THEN IF hasLocalStorage THEN [st EXCEPT !.localStorage = token] ELSE st
  ELSE [st EXCEPT !.secureStore = token]

\* variant of clearToken: the native branch does not delete
clearTokenWebOnly(st) ==
  IF platformOS = "web" /\ hasLocalStorage THEN [st EXCEPT !.localStorage = Null] ELSE st

\* api.ts clearToken: the storage after the call
clearToken(st) ==
  IF platformOS = "web"
  THEN IF hasLocalStorage THEN [st EXCEPT !.localStorage = Null] ELSE st
  ELSE [st EXCEPT !.secureStore = Null]

\* the platform storage is there: native secure store, or web with localStorage
StorageAvailable == platformOS = "native" \/ hasLocalStorage

\* ------------------------------------------------------ domain operations
\* The operations a screen's load handler awaits together (Promise.all), in
\* the order of the array: index.tsx:37-45, my-dates.tsx:37, profile.tsx:45
Requests(s) ==
  CASE s = "discover" -> << [op |-> "fetchDates", path |-> "/dates?filter=all"],
                            [op |-> "fetchDates", path |-> "/dates?filter=owned"],
                            [op |-> "fetchDates", path |-> "/dates?filter=requested"] >>
    [] s = "myDates"  -> << [op |-> "fetchDates", path |-> "/dates?filter=owned"],
                            [op |-> "fetchDates", path |-> "/dates?filter=requested"] >>
    [] s = "profile"  -> << [op |-> "fetchProfile", path |-> "/users"],
                            [op |-> "fetchProfileImages", path |-> "/users/images"] >>
NReq(s) == Len(Requests(s))
MaxReq == 3
\* every operation of api.ts built on withAuthFetch
Ops == {"fetchDates", "fetchDateById", "createDate", "fetchProfile", "updateProfile",
        "fetchDateImages", "uploadDateImages", "deleteDateImage", "fetchProfileImages",
        "fetchPublicProfile", "uploadProfileImages", "deleteProfileImage",
        "fetchAttendeeStatus", "requestToJoinDate", "cancelJoinRequest",
        "fetchAttendeeRequests", "acceptAttendee", "rejectAttendee"}

\* variant of FailMessage: one message for every operation
FailMessageGeneric(op) == "Request failed."

\* the message of the error each operation throws on `!response.ok`
FailMessage(op) ==
  CASE op = "fetchDates"            -> "Failed to load dates."
    [] op = "fetchDateById"         -> "Failed to load date."
    [] op = "createDate"            -> "Failed to create date."
    [] op = "fetchProfile"          -> "Failed to load profile."
    [] op = "updateProfile"         -> "Failed to update profile."
    [] op = "fetchDateImages"       -> "Failed to load date images."
    [] op = "uploadDateImages"      -> "Failed to upload date images."
    [] op = "deleteDateImage"       -> "Failed to delete date image."
    [] op = "fetchProfileImages"    -> "Failed to load profile images."
    [] op = "fetchPublicProfile"    -> "Failed to load public profile."
    [] op = "uploadProfileImages"   -> "Failed to upload profile images."
    [] op = "deleteProfileImage"    -> "Failed to delete profile image."
    [] op = "fetchAttendeeStatus"   -> "Failed to load attendee status."
    [] op = "requestToJoinDate"     -> "Failed to request to join."
    [] op = "cancelJoinRequest"     -> "Failed to cancel request."
    [] op = "fetchAttendeeRequests" -> "Failed to load attendee requests."
    [] op = "acceptAttendee"        -> "Failed to accept attendee."
    [] op = "rejectAttendee"        -> "Failed to reject attendee."
FailMessages == {FailMessage(op) : op \in Ops}

\* variant of AuthExpiredStatus: 403 is not taken for an expired session
AuthExpiredStatus401(status) == status = 401

\* withAuthFetch, lines 64-67: the statuses on which it clears the token and throws
AuthExpiredStatus(status) == status = 401 \/ status = 403

\* What the promise of domain operation `op` settles with when the service
\* answers `status`: "ok" when it resolves, else the message of the Error.
DomainOutcome(op, status) ==
  IF status = NetworkError THEN "Network request failed"
  ELSE IF AuthExpiredStatus(status) THEN "AUTH_EXPIRED"
  ELSE IF ~ResponseOk(status) THEN FailMessage(op)
  ELSE "ok"

\* the collection field of a success body: a list of ids, or missing
Listings == {[i \in 1..n |-> i] : n \in 0..MaxDateId}
Payloads == {[has |-> TRUE, list |-> l] : l \in Listings}
              \cup {[has |-> FALSE, list |-> <<>>]}
\* variant of OrEmpty: a missing field is returned as it is (0: undefined)
OrEmptyUnchecked(payload) == IF payload.has THEN payload.list ELSE <<0>>

\* `data.dateEventData ?? []`, `data.profileImageData ?? []`
OrEmpty(payload) == IF payload.has THEN payload.list ELSE <<>>

\* index.tsx:46-50: allDates without the ids of ownedDates and requestedDates
RECURSIVE Filter(_, _)
Filter(list, excluded) ==
  IF list = <<>> THEN <<>>
  ELSE IF Head(list) \in excluded THEN Filter(Tail(list), excluded)
  ELSE <<Head(list)>> \o Filter(Tail(list), excluded)
Ids(list) == {list[i] : i \in 1..Len(list)}

\* variant of Discover: only the owned events are left out
DiscoverOwnedOnly(allDates, ownedDates, requestedDates) ==
  SelectSeq(allDates, LAMBDA id : \A j \in 1..Len(ownedDates) : ownedDates[j] # id)

Discover(allDates, ownedDates, requestedDates) ==
  Filter(allDates, Ids(ownedDates) \cup Ids(requestedDates))

\* ------------------------------------------------------------ bookkeeping
IdleCall == [st |-> "none", tok |-> Null]
IdleGroup == [i \in 1..MaxReq |-> IdleCall]
Finished(c) == c.st \in {"none", "ok", "done"}
\* What a step resolved: a call of `op` that got `status` settled with `outcome`
\* ("ok" or the message of the Error) and the catch block of `screen` ran;
\* `token`: the token a login returned, a Token Store call was given or returned;
\* `prev`, `prevToken`: the Token Store call made just before a getToken();
\* for a clearToken(), `prevToken`: the token the store held before it
\* `args`, `result`: the lists a step was given and the list it produced;
\* `request`: the request an operation called by itself handed to fetch, with
\* `prevToken` the value its getToken() returned
NoRequest == [method |-> Null, url |-> Null, authorization |-> Null]
NoEvent == [type |-> "none", op |-> Null, status |-> NoStatus, outcome |-> Null,
            token |-> Null, screen |-> Null, prev |-> Null, prevToken |-> Null,
            request |-> NoRequest, args |-> <<>>, result |-> <<>>]

FreeSlots(s) == {k \in Slots : task[s][k] = "free"}
\* slots a handler in progress will need when it gets to its load: the
\* onSuccess of a login in flight, the redirect of a logout in flight
Reserved(s) ==
  (IF s \in FormScreens /\ form[s].pc # "idle" THEN 1 ELSE 0)
  + (IF s = "discover" /\ logoutPc # "idle" THEN 1 ELSE 0)
CanStart(s, n) == Cardinality(FreeSlots(s)) >= Reserved(s) + n

\* the load invocations in progress on all screens, and those the handlers in
\* progress will start
ActiveLoads ==
  LET OfScreen(s) == Cardinality(Slots \ FreeSlots(s)) + Reserved(s)
  IN OfScreen("discover") + OfScreen("myDates") + OfScreen("profile")
\* the user acts when the loads the action starts fit
Fits(n) == ActiveLoads + n <= MaxActive
Lowest(S) == CHOOSE k \in S : \A j \in S : k <= j

\* Who made a Token Store call or sent a request
Provider == [h |-> "provider", s |-> "", k |-> 0, i |-> 0]
LogoutPress == [h |-> "logout", s |-> "", k |-> 0, i |-> 0]
Form(s) == [h |-> "form", s |-> s, k |-> 0, i |-> 0]
Task(s, k) == [h |-> "task", s |-> s, k |-> k, i |-> 0]
Call(s, k, i) == [h |-> "call", s |-> s, k |-> k, i |-> i]

Min(a, b) == IF a <= b THEN a ELSE b
Remove(q, e) == SelectSeq(q, LAMBDA x : x # e)
Among(q, e, n) == \E j \in 1..Min(Len(q), n) : q[j] = e

\* variant of StoreReady: a continuation runs without its Token Store call
\* having completed
StoreReadyUnawaited(e) == TRUE

\* The continuation of a Token Store call can run.  On the web branch the
\* functions contain no real await: the continuations are microtasks and run
\* in the order queued.  On the native branch the secure-store module serves
\* the calls one at a time, in the order made; a call takes effect when it
\* completes.
StoreReady(e) == Among(storeq, e, 1)
\* the response to a request can arrive: responses come in any order, up to MaxReorder
NetReady(e) == Among(netq, e, MaxReorder)

\* A continuation of a web Token Store call is pending: it is a microtask and
\* runs before the next event (network response, user action) is delivered.
MicrotaskPending == platformOS = "web" /\ storeq # <<>>

\* The state of a screen whose handlers call authenticated operations one
\* after the other (create date, profile, date details): `handler` in
\* progress awaits operation number `step` of its sequence (0: none in
\* progress), `images` pictures are selected on the create-date screen, the
\* handler was given `files` pictures, `requests` are the requests it issued; the other fields are the screen's useState values and what
\* the handler showed (Alert, router.replace); on the date screen `joinStatus`
\* is displayed, `statusLoaded` tells that the mount effect's
\* fetchAttendeeStatus has settled, and `reported` is the joinDateStatus of the
\* last status body received (Null: the body had none)
InitFlow(screen) ==
  [screen |-> screen, handler |-> Null, step |-> 0, images |-> 0, files |-> 0,
   requests |-> <<>>,
   error |-> "", saving |-> FALSE, uploadingImages |-> FALSE, applied |-> FALSE,
   alert |-> Null, route |-> Null,
   joinStatus |-> "NOT_REQUESTED", statusLoaded |-> FALSE, reported |-> Null]
NoFlow == InitFlow(Null)

\* ------------------------------------------------------------------ Init
InitData(s) ==
  IF s = "profile" THEN [profile |-> Null, images |-> <<>>] ELSE <<>>
InitScreen(s) ==
  [mounted |-> s = "discover", token |-> Null, loading |-> TRUE, error |-> "",
   data |-> InitData(s)]
InitForm == [isLoggingIn |-> FALSE, error |-> "", pc |-> "idle", tok |-> Null, live |-> FALSE]

\* The app has started: AuthProvider and the discover tab are mounted, their
\* effects have run (auth.tsx:24-26, index.tsx:93-101) and the getToken() calls
\* they made are pending.  The store holds what an earlier run left in it.
Init ==
  /\ platformOS \in {"web", "native"}
  /\ hasLocalStorage \in BOOLEAN
  /\ platformOS = "native" => ~hasLocalStorage
  /\ \E t \in {"t1", Null} :
       storage = setToken([localStorage |-> Null, secureStore |-> Null], t)
  /\ ctxToken = Null
  /\ providerPc = "refreshToken"
  /\ focus = "discover"
  /\ scr = [s \in Screens |-> InitScreen(s)]
  /\ form = [s \in FormScreens |-> InitForm]
  /\ task = [s \in Screens |-> [k \in Slots |->
               IF s = "discover" /\ k <= 2 THEN "authRead" ELSE "free"]]
  /\ call = [s \in Screens |-> [k \in Slots |-> IdleGroup]]
  /\ logoutPc = "idle"
  /\ events = 0
  /\ storeq = <<Task("discover", 1), Task("discover", 2), Provider>>
  /\ netq = <<>>
  /\ flow = NoFlow
  /\ sinceWrite = TRUE
  /\ ev = NoEvent


\* ---------------------------------------------------- load bookkeeping
\* loadDates() / loadProfile() up to its first await, in slot k of screen s:
\* setError(''), setLoading(true), and every operation of the Promise.all has
\* called withAuthFetch, which has called getToken()
LoadScr(sc, s) == [sc EXCEPT ![s].error = "", ![s].loading = TRUE]
LoadTask(t, s, k) == [t EXCEPT ![s][k] = "await"]
LoadCall(c, s, k) ==
  [c EXCEPT ![s][k] = [i \in 1..MaxReq |->
     IF i <= NReq(s) THEN [IdleCall EXCEPT !.st = "getToken"] ELSE IdleCall]]
LoadQueue(q, s, k) == q \o [i \in 1..NReq(s) |-> Call(s, k, i)]

\* LoginForm is rendered by a screen while `!token`; when the token becomes
\* truthy the form unmounts: its state is dropped and a handleLogin still in
\* flight goes on without a component to update
FormAfter(f, s, token) ==
  IF s \in FormScreens /\ Truthy(token)
  THEN [f EXCEPT ![s].isLoggingIn = FALSE, ![s].error = "", ![s].live = FALSE]
  ELSE f

\* ----------------------------------------------------------- AuthProvider
\* auth.tsx:15-18 refreshToken, as called by the mount effect (24-26):
\* getToken() resolves and its value is published
ProviderRefreshToken ==
  /\ providerPc = "refreshToken"
  /\ StoreReady(Provider)
  /\ storeq' = Remove(storeq, Provider)
  /\ ctxToken' = getToken(storage)
  /\ providerPc' = "done"
  /\ ev' = NoEvent
  /\ UNCHANGED <<events, platformOS, hasLocalStorage, storage, focus, scr, form, task,
                 call, logoutPc, netq, flow, sinceWrite>>

\* -------------------------------------------------------------- LoginForm
\* LoginForm.tsx:21-25: the Login button is pressed; handleLogin runs up to
\* the fetch of login()
HandleLogin(s) ==
  /\ ~MicrotaskPending
  /\ events < MaxEvents
  /\ events' = events + 1
  /\ focus = s /\ ~Truthy(scr[s].token)          \* the form is on screen
  /\ ~form[s].isLoggingIn /\ form[s].pc = "idle" \* the button is rendered
  /\ CanStart(s, 1) /\ Fits(1)
  /\ form' = [form EXCEPT ![s] = [isLoggingIn |-> TRUE, error |-> "", pc |-> "fetch",
                                  tok |-> Null, live |-> TRUE]]
  /\ ev' = NoEvent
  /\ UNCHANGED <<platformOS, hasLocalStorage, storage, ctxToken, providerPc, focus,
                 scr, task, call, logoutPc, storeq, netq, flow, sinceWrite>>

\* variant of LoginFailed: the request is issued again after a failure
LoginFailedRetries(f, s, message) ==
  [f EXCEPT ![s].pc = "fetch", ![s].tok = Null]

\* variant of LoginFailed: there is no finally block
LoginFailedKeepsLoggingIn(f, s, message) ==
  [f EXCEPT ![s].pc = "idle", ![s].tok = Null, ![s].live = FALSE,
            ![s].error = IF f[s].live THEN message ELSE @]

\* handleLogin's catch and finally (LoginForm.tsx:28-32) after login() threw
LoginFailed(f, s, message) ==
  [f EXCEPT ![s].pc = "idle", ![s].tok = Null, ![s].live = FALSE,
            ![s].error = IF f[s].live THEN message ELSE @,
            ![s].isLoggingIn = IF f[s].live THEN FALSE ELSE @]

\* variant of LoginOutcome: `!response.ok` is not checked
LoginOutcomeHeaderOnly(status, header) ==
  IF status = NetworkError THEN "Network request failed"
  ELSE IF ~Truthy(header) THEN "Missing auth token."
  ELSE "ok"

\* What login() does with the response (api.ts:41-51): the message of the
\* Error it throws, or "ok" when it goes on to setToken(token)
LoginOutcome(status, header) ==
  IF status = NetworkError THEN "Network request failed"
  ELSE IF ~ResponseOk(status) THEN "Invalid credentials."
  ELSE IF ~Truthy(header) THEN "Missing auth token."
  ELSE "ok"

\* api.ts:35-50: the response to POST /login arrives (or the fetch rejects)
LoginResponse(s) ==
  /\ ~MicrotaskPending
  /\ form[s].pc = "fetch"
  /\ \E status \in {200, 401}, header \in HeaderValues :
       LET outcome == LoginOutcome(status, header) IN
       IF outcome = "ok"
       THEN /\ form' = [form EXCEPT ![s].pc = "setToken", ![s].tok = header]
            /\ storeq' = Append(storeq, Form(s))
            /\ ev' = NoEvent
       ELSE /\ form' = LoginFailed(form, s, outcome)
            /\ storeq' = storeq
            /\ ev' = [NoEvent EXCEPT !.type = "loginFailed", !.status = status,
                                     !.outcome = outcome, !.screen = s]
  /\ UNCHANGED <<events, platformOS, hasLocalStorage, storage, ctxToken, providerPc, focus,
                 scr, task, call, logoutPc, netq, flow, sinceWrite>>

\* api.ts:50-51 and LoginForm.tsx:25-26: setToken(token) completes, login
\* returns the token, handleLogin calls refreshToken, which calls getToken()
LoginSetToken(s) ==
  /\ form[s].pc = "setToken"
  /\ StoreReady(Form(s))
  /\ storeq' = Append(Remove(storeq, Form(s)), Form(s))
  /\ storage' = setToken(storage, form[s].tok)
  /\ form' = [form EXCEPT ![s].pc = "refreshToken"]
  /\ ev' = [NoEvent EXCEPT !.type = "login", !.status = 200, !.outcome = "ok",
                           !.token = form[s].tok]
  /\ sinceWrite' = TRUE
  /\ UNCHANGED <<events, platformOS, hasLocalStorage, ctxToken, providerPc, focus, scr,
                 task, call, logoutPc, netq, flow>>

\* auth.tsx:16-17 and LoginForm.tsx:26-31: refreshToken's getToken() resolves,
\* the value is published, onSuccess() runs (index.tsx:108-113,
\* my-dates.tsx:81-86: it calls getToken()), then finally
LoginRefreshToken(s) ==
  /\ form[s].pc = "refreshToken"
  /\ StoreReady(Form(s))
  /\ LET k == Lowest(FreeSlots(s)) IN
     /\ task' = [task EXCEPT ![s][k] = "successRead"]
     /\ storeq' = Append(Remove(storeq, Form(s)), Task(s, k))
  /\ ctxToken' = getToken(storage)
  /\ form' = [form EXCEPT ![s].pc = "idle", ![s].tok = Null, ![s].live = FALSE,
                          ![s].isLoggingIn = IF form[s].live THEN FALSE ELSE @]
  /\ ev' = [NoEvent EXCEPT !.type = "onSuccess", !.token = form[s].tok]
  /\ UNCHANGED <<events, platformOS, hasLocalStorage, storage, providerPc, focus, scr,
                 call, logoutPc, netq, flow, sinceWrite>>

\* ------------------------------------------------- discover and my-dates
\* variant of RefreshAuth: loadDates is called whatever the token read
RefreshAuthAlwaysLoads(s, k) ==
  /\ s \in FormScreens
  /\ task[s][k] = "authRead"
  /\ StoreReady(Task(s, k))
  /\ LET storedToken == getToken(storage) IN
     /\ form' = FormAfter(form, s, storedToken)
     /\ scr' = LoadScr([scr EXCEPT ![s].token = storedToken], s)
     /\ task' = LoadTask(task, s, k)
     /\ call' = LoadCall(call, s, k)
     /\ storeq' = LoadQueue(Remove(storeq, Task(s, k)), s, k)
     /\ ev' = [NoEvent EXCEPT !.type = "refreshAuth", !.token = storedToken, !.screen = s]
  /\ UNCHANGED <<events, platformOS, hasLocalStorage, storage, ctxToken, providerPc, focus,
                 logoutPc, netq, flow, sinceWrite>>

\* index.tsx:82-91, my-dates.tsx:55-64 refreshAuth: getToken() resolves;
\* ev: the token read, on screen s
RefreshAuth(s, k) ==
  /\ s \in FormScreens
  /\ task[s][k] = "authRead"
  /\ StoreReady(Task(s, k))
  /\ LET storedToken == getToken(storage) IN
     /\ form' = FormAfter(form, s, storedToken)
     /\ IF Truthy(storedToken)
        THEN /\ scr' = LoadScr([scr EXCEPT ![s].token = storedToken], s)
             /\ task' = LoadTask(task, s, k)
             /\ call' = LoadCall(call, s, k)
             /\ storeq' = LoadQueue(Remove(storeq, Task(s, k)), s, k)
        ELSE /\ scr' = [scr EXCEPT ![s].token = storedToken, ![s].loading = FALSE]
             /\ task' = [task EXCEPT ![s][k] = "free"]
             /\ call' = call
             /\ storeq' = Remove(storeq, Task(s, k))
  /\ ev' = [NoEvent EXCEPT !.type = "refreshAuth", !.token = getToken(storage), !.screen = s]
  /\ UNCHANGED <<events, platformOS, hasLocalStorage, storage, ctxToken, providerPc, focus,
                 logoutPc, netq, flow, sinceWrite>>

\* index.tsx:109-112, my-dates.tsx:82-85: the getToken() of onSuccess resolves
OnSuccess(s, k) ==
  /\ s \in FormScreens
  /\ task[s][k] = "successRead"
  /\ StoreReady(Task(s, k))
  /\ LET storedToken == getToken(storage) IN
     /\ form' = FormAfter(form, s, storedToken)
     /\ scr' = LoadScr([scr EXCEPT ![s].token = storedToken], s)
  /\ task' = LoadTask(task, s, k)
  /\ call' = LoadCall(call, s, k)
  /\ storeq' = LoadQueue(Remove(storeq, Task(s, k)), s, k)
  /\ ev' = NoEvent
  /\ UNCHANGED <<events, platformOS, hasLocalStorage, storage, ctxToken, providerPc, focus,
                 logoutPc, netq, flow, sinceWrite>>

\* ---------------------------------------------------------- withAuthFetch
\* api.ts:55-62: getToken() resolves and the request is issued with header
\* Authorization: token ?? ''
WithAuthFetchSend(s, k, i) ==
  /\ call[s][k][i].st = "getToken"
  /\ StoreReady(Call(s, k, i))
  /\ LET token == getToken(storage) IN
     call' = [call EXCEPT ![s][k][i] =
                [IdleCall EXCEPT !.st = "fetch",
                                 !.tok = IF token = Null THEN "" ELSE token]]
  /\ storeq' = Remove(storeq, Call(s, k, i))
  /\ netq' = Append(netq, Call(s, k, i))
  /\ ev' = NoEvent
  /\ UNCHANGED <<events, platformOS, hasLocalStorage, storage, ctxToken, providerPc, focus,
                 scr, form, task, logoutPc, flow, sinceWrite>>

\* The catch block of the load handler of screen s (index.tsx:51-59,
\* my-dates.tsx:42-49, profile.tsx:54-59), then finally
CatchScr(sc, s, message) ==
  IF message = "AUTH_EXPIRED"
  THEN CASE s = "discover" -> [sc EXCEPT ![s].token = Null, ![s].data = <<>>,
                                         ![s].error = "", ![s].loading = FALSE]
         [] s = "myDates"  -> [sc EXCEPT ![s].token = Null, ![s].data = <<>>,
                                         ![s].error = "", ![s].loading = FALSE]
         [] s = "profile"  -> [sc EXCEPT ![s].loading = FALSE]
  ELSE [sc EXCEPT ![s].error = message, ![s].loading = FALSE]
\* variant of CatchCtx: no catch block touches the Auth Context
CatchCtxKeeps(s, message) == ctxToken

\* variant of CatchCtx: the discover screen clears the Auth Context on any failure
CatchCtxAnyFailure(s, message) ==
  IF message # "ok" /\ s = "discover" THEN Null ELSE ctxToken

\* the Auth Context token after the catch block: index.tsx:54 setTokenValue(null)
CatchCtx(s, message) ==
  IF message = "AUTH_EXPIRED" /\ s = "discover" THEN Null ELSE ctxToken

\* profile.tsx:56 router.replace('/(tabs)'): the focus moves to the discover
\* tab, whose focus effect calls refreshAuth
CatchRedirects(s, message) ==
  message = "AUTH_EXPIRED" /\ s = "profile" /\ focus # "discover"

\* The code after the Promise.all of the load handler of screen s resolved
\* with the unwrapped results (index.tsx:46-50, my-dates.tsx:38-41,
\* profile.tsx:46-53), then finally
ThenScr(sc, s, results) ==
  CASE s = "discover" ->
         [sc EXCEPT ![s].data = Discover(results[1], results[2], results[3]),
                    ![s].loading = FALSE]
    [] s = "myDates" ->
         [sc EXCEPT ![s].data = <<results[1], results[2]>>, ![s].loading = FALSE]
    [] s = "profile" ->
         [sc EXCEPT ![s].data = [profile |-> results[1], images |-> results[2]],
                    ![s].loading = FALSE]

\* what operation i of screen s returns for a success body
Unwrap(s, i, payload) ==
  IF Requests(s)[i].op = "fetchProfile" THEN "user" ELSE OrEmpty(payload)

\* Call i of slot k of screen s settles with `outcome` ("ok" or the message of
\* the Error): Promise.all resolves when all its operations have, and
\* rejects with the first failure; the operations still in flight go on, and
\* what they settle with is dropped.  q: the Token Store calls then in progress.
Settle(s, k, i, outcome, q) ==
  LET others == {j \in 1..NReq(s) : j # i}
      settles == /\ task[s][k] = "await"
                 /\ outcome = "ok" => \A j \in others : call[s][k][j].st = "ok"
      pending == \E j \in others : ~Finished(call[s][k][j])
      waits == task[s][k] = "await" /\ ~settles
      redirect == settles /\ CatchRedirects(s, outcome)
      task1 == [task EXCEPT ![s][k] =
                  IF ~pending THEN "free" ELSE IF settles THEN "orphan" ELSE @]
  IN
  /\ call' = IF ~pending THEN [call EXCEPT ![s][k] = IdleGroup]
             ELSE IF waits THEN [call EXCEPT ![s][k][i] = [IdleCall EXCEPT !.st = "ok"]]
             ELSE [call EXCEPT ![s][k] = [j \in 1..MaxReq |->
                     IF j = i \/ Finished(call[s][k][j]) THEN IdleCall ELSE call[s][k][j]]]
  /\ IF redirect
     THEN /\ CanStart("discover", 1)
          /\ LET d == Lowest(FreeSlots("discover")) IN
             /\ task' = [task1 EXCEPT !["discover"][d] = "authRead"]
             /\ storeq' = Append(q, Task("discover", d))
          /\ focus' = "discover"
     ELSE /\ task' = task1
          /\ storeq' = q
          /\ focus' = focus
  /\ IF ~settles
     THEN scr' = scr /\ ctxToken' = ctxToken
     ELSE IF outcome = "ok"
     THEN /\ \E payloads \in [1..NReq(s) -> Payloads] :
               scr' = ThenScr(scr, s, [j \in 1..NReq(s) |-> Unwrap(s, j, payloads[j])])
          /\ ctxToken' = ctxToken
     ELSE /\ scr' = CatchScr(scr, s, outcome)
          /\ ctxToken' = CatchCtx(s, outcome)

\* the screen whose catch block handles the failure of call i of slot k, if any
Caught(s, k, outcome) ==
  IF task[s][k] = "await" /\ outcome # "ok" THEN s ELSE Null

\* api.ts:56-69 and the operation's own check: the response arrives.  On 401 or
\* 403 withAuthFetch calls clearToken(); otherwise the operation settles.
WithAuthFetchResponse(s, k, i) ==
  /\ ~MicrotaskPending
  /\ call[s][k][i].st = "fetch"
  /\ NetReady(Call(s, k, i))
  /\ netq' = Remove(netq, Call(s, k, i))
  /\ \E status \in HttpStatuses :
       LET op == Requests(s)[i].op IN
       IF AuthExpiredStatus(status)
       THEN /\ call' = [call EXCEPT ![s][k][i].st = "clearToken"]
            /\ storeq' = Append(storeq, Call(s, k, i))
            /\ ev' = NoEvent
            /\ UNCHANGED <<scr, ctxToken, task, focus>>
       ELSE /\ Settle(s, k, i, DomainOutcome(op, status), storeq)
            /\ ev' = [NoEvent EXCEPT !.type = "call", !.op = op, !.status = status,
                                     !.outcome = DomainOutcome(op, status),
                                     !.screen = Caught(s, k, DomainOutcome(op, status))]
  /\ UNCHANGED <<events, platformOS, hasLocalStorage, storage, providerPc, form, logoutPc, flow, sinceWrite>>

\* api.ts:65-66: clearToken() completes and withAuthFetch throws AUTH_EXPIRED,
\* which the operation passes on to its caller.  Which of the two statuses the
\* response carried changes nothing before this point: it is drawn here.
WithAuthFetchExpired(s, k, i) ==
  /\ call[s][k][i].st = "clearToken"
  /\ StoreReady(Call(s, k, i))
  /\ storage' = clearToken(storage)
  /\ \E status \in {x \in HttpStatuses : AuthExpiredStatus(x)} :
       LET op == Requests(s)[i].op IN
       /\ Settle(s, k, i, DomainOutcome(op, status), Remove(storeq, Call(s, k, i)))
       /\ ev' = [NoEvent EXCEPT !.type = "call", !.op = op, !.status = status,
                                !.outcome = DomainOutcome(op, status),
                                !.screen = Caught(s, k, DomainOutcome(op, status))]
  /\ sinceWrite' = FALSE
  /\ UNCHANGED <<events, platformOS, hasLocalStorage, providerPc, form, logoutPc, netq, flow>>

\* ------------------------------------------------------------ navigation
\* variant of hasToken: the layout does not look at the token
hasTokenAlways == TRUE

\* _layout.tsx:13: const hasToken = Boolean(token)
hasToken == Truthy(ctxToken)

\* _layout.tsx:31: tabBarStyle.display
TabBarDisplay == IF hasToken THEN "flex" ELSE "none"

\* _layout.tsx:37-58: the href option of tab s; Null removes the tab from the
\* bar and from navigation, "default" (no option, or undefined) links it
TabHref(s) ==
  IF s = "discover" THEN "default" ELSE IF hasToken THEN "default" ELSE Null

\* the n lowest free slots of screen s, in order
RECURSIVE LowestN(_, _)
LowestN(S, n) ==
  IF n = 0 THEN <<>> ELSE <<Lowest(S)>> \o LowestN(S \ {Lowest(S)}, n - 1)

\* A tab is pressed (_layout.tsx:32,46,54: the bar is displayed, and my-dates
\* and profile are linked, only with a token).  The screen mounts on its first
\* focus: the mount effect and the focus effect both run (my-dates.tsx:66-74,
\* profile.tsx:65-73), later only the focus effect.
FocusTab(s) ==
  /\ ~MicrotaskPending
  /\ events < MaxEvents
  /\ events' = events + 1
  /\ s # focus
  /\ hasToken
  /\ LET n == IF scr[s].mounted THEN 1 ELSE 2 IN
     /\ CanStart(s, n) /\ Fits(n)
     /\ LET slots == LowestN(FreeSlots(s), n)
            used == {slots[j] : j \in 1..n} IN
        IF s = "profile"
        THEN /\ scr' = LoadScr([scr EXCEPT ![s].mounted = TRUE], s)
             /\ task' = [task EXCEPT ![s] = [k \in Slots |->
                           IF k \in used THEN "await" ELSE task[s][k]]]
             /\ call' = [call EXCEPT ![s] = [k \in Slots |->
                           IF k \in used THEN LoadCall(call, s, k)[s][k] ELSE call[s][k]]]
             /\ storeq' = IF n = 1 THEN LoadQueue(storeq, s, slots[1])
                          ELSE LoadQueue(LoadQueue(storeq, s, slots[1]), s, slots[2])
        ELSE /\ scr' = [scr EXCEPT ![s].mounted = TRUE]
             /\ task' = [task EXCEPT ![s] = [k \in Slots |->
                           IF k \in used THEN "authRead" ELSE task[s][k]]]
             /\ call' = call
             /\ storeq' = storeq \o [j \in 1..n |-> Task(s, slots[j])]
  /\ focus' = s
  /\ ev' = NoEvent
  /\ UNCHANGED <<platformOS, hasLocalStorage, storage, ctxToken, providerPc, form,
                 logoutPc, netq, flow, sinceWrite>>

\* profile.tsx:225-226: "Log out" is pressed and clearToken() is called
Logout ==
  /\ ~MicrotaskPending
  /\ events < MaxEvents
  /\ events' = events + 1
  /\ focus = "profile"
  /\ logoutPc = "idle"
  /\ CanStart("discover", 1) /\ Fits(1)
  /\ logoutPc' = "clearToken"
  /\ storeq' = Append(storeq, LogoutPress)
  /\ ev' = NoEvent
  /\ UNCHANGED <<platformOS, hasLocalStorage, storage, ctxToken, providerPc, focus,
                 scr, form, task, call, netq, flow, sinceWrite>>

\* profile.tsx:226-227: clearToken() completes, then router.replace('/(tabs)')
LogoutDone ==
  /\ logoutPc = "clearToken"
  /\ StoreReady(LogoutPress)
  /\ storage' = clearToken(storage)
  /\ logoutPc' = "idle"
  /\ IF focus # "discover"
     THEN LET d == Lowest(FreeSlots("discover")) IN
          /\ focus' = "discover"
          /\ task' = [task EXCEPT !["discover"][d] = "authRead"]
          /\ storeq' = Append(Remove(storeq, LogoutPress), Task("discover", d))
     ELSE /\ storeq' = Remove(storeq, LogoutPress)
          /\ UNCHANGED <<focus, task>>
  /\ ev' = [NoEvent EXCEPT !.type = "logout"]
  /\ sinceWrite' = FALSE
  /\ UNCHANGED <<events, platformOS, hasLocalStorage, ctxToken, providerPc, scr, form, call,
                 netq, flow>>

\* ------------------------------------------------------------------ Next
Next ==
  \/ ProviderRefreshToken
  \/ \E s \in FormScreens : HandleLogin(s)
  \/ \E s \in FormScreens : LoginResponse(s)
  \/ \E s \in FormScreens : LoginSetToken(s)
  \/ \E s \in FormScreens : LoginRefreshToken(s)
  \/ \E s \in FormScreens, k \in Slots : RefreshAuth(s, k)
  \/ \E s \in FormScreens, k \in Slots : OnSuccess(s, k)
  \/ \E s \in Screens, k \in Slots, i \in 1..MaxReq : WithAuthFetchSend(s, k, i)
  \/ \E s \in Screens, k \in Slots, i \in 1..MaxReq : WithAuthFetchResponse(s, k, i)
  \/ \E s \in Screens, k \in Slots, i \in 1..MaxReq : WithAuthFetchExpired(s, k, i)
  \/ \E s \in Screens : FocusTab(s)
  \/ Logout
  \/ LogoutDone

Spec == Init /\ [][Next]_vars

\* ------------------------------------------------- api.ts, call by call
\* The functions of lib/api.ts called one at a time, each awaited to its end
\* before the next: what each call does to the Token Store and what it
\* settles with, for every operation, status and environment.
ApiFrame == <<platformOS, hasLocalStorage, ctxToken, providerPc, focus, scr, form, task,
              call, logoutPc, events, storeq, netq, flow, sinceWrite>>

ApiInit ==
  /\ platformOS \in {"web", "native"}
  /\ hasLocalStorage \in BOOLEAN
  /\ platformOS = "native" => ~hasLocalStorage
  /\ \E t \in Tokens \cup {Null} :
       storage = setToken([localStorage |-> Null, secureStore |-> Null], t)
  /\ ctxToken = Null
  /\ providerPc = "done"
  /\ focus = "discover"
  /\ scr = [s \in Screens |-> InitScreen(s)]
  /\ form = [s \in FormScreens |-> InitForm]
  /\ task = [s \in Screens |-> [k \in Slots |-> "free"]]
  /\ call = [s \in Screens |-> [k \in Slots |-> IdleGroup]]
  /\ logoutPc = "idle"
  /\ events = 0
  /\ storeq = <<>>
  /\ netq = <<>>
  /\ flow = NoFlow
  /\ sinceWrite = TRUE
  /\ ev = NoEvent

\* api.ts:7-12: await getToken()
ApiGetToken ==
  /\ ev' = [NoEvent EXCEPT !.type = "getToken", !.token = getToken(storage),
                           !.prev = ev.type, !.prevToken = ev.token]
  /\ UNCHANGED storage
  /\ UNCHANGED ApiFrame

\* api.ts:11: on the native branch getToken returns the promise of
\* SecureStore.getItemAsync as it is; when the secure store cannot be read
\* that promise rejects, and so does getToken()
ApiGetTokenRejects ==
  /\ platformOS = "native"
  /\ ev' = [NoEvent EXCEPT !.type = "getTokenRejected", !.outcome = "SecureStore error"]
  /\ UNCHANGED storage
  /\ UNCHANGED ApiFrame

\* api.ts:14-22: await setToken(token)
ApiSetToken(token) ==
  /\ storage' = setToken(storage, token)
  /\ ev' = [NoEvent EXCEPT !.type = "setToken", !.token = token]
  /\ UNCHANGED ApiFrame

\* api.ts:24-32: await clearToken()
ApiClearToken ==
  /\ storage' = clearToken(storage)
  /\ ev' = [NoEvent EXCEPT !.type = "clearToken", !.prevToken = getToken(storage)]
  /\ UNCHANGED ApiFrame

\* api.ts:34-52: await login(username, password), the service answering with
\* `status` and the Authorization header `header`; token: the header
ApiLogin(status, header) ==
  LET outcome == LoginOutcome(status, header) IN
  /\ storage' = IF outcome = "ok" THEN setToken(storage, header) ELSE storage
  /\ ev' = [NoEvent EXCEPT !.type = IF outcome = "ok" THEN "login" ELSE "loginFailed",
                           !.op = "login", !.status = status, !.outcome = outcome,
                           !.token = header]
  /\ UNCHANGED ApiFrame

\* api.ts:85-88: what registerUser settles with
RegisterOutcome(status) ==
  IF status = NetworkError THEN "Network request failed"
  ELSE IF ~ResponseOk(status) THEN "Failed to register."
  ELSE "ok"

\* api.ts:72-89: await registerUser(payload)
ApiRegisterUser(status) ==
  /\ ev' = [NoEvent EXCEPT !.type = "register", !.op = "registerUser", !.status = status,
                           !.outcome = RegisterOutcome(status)]
  /\ UNCHANGED storage
  /\ UNCHANGED ApiFrame

\* config.ts:20-22: the configured base URL
API_BASE_URL == "http://host:8080"

\* the path each operation passes to withAuthFetch, for the date, user and
\* image of id 1 and the default filter
OpPath(op) ==
  CASE op = "fetchDates"            -> "/dates?filter=all"
    [] op = "fetchDateById"         -> "/dates/1"
    [] op = "createDate"            -> "/dates"
    [] op = "fetchProfile"          -> "/users"
    [] op = "updateProfile"         -> "/users/profile"
    [] op = "fetchDateImages"       -> "/dates/1/images"
    [] op = "uploadDateImages"      -> "/dates/1/images"
    [] op = "deleteDateImage"       -> "/dates/1/images/1"
    [] op = "fetchProfileImages"    -> "/users/images"
    [] op = "fetchPublicProfile"    -> "/users/1/public-profile"
    [] op = "uploadProfileImages"   -> "/users/images"
    [] op = "deleteProfileImage"    -> "/users/images/1"
    [] op = "fetchAttendeeStatus"   -> "/dates/1/attendees/status"
    [] op = "requestToJoinDate"     -> "/dates/1/attendees"
    [] op = "cancelJoinRequest"     -> "/dates/1/attendees/me"
    [] op = "fetchAttendeeRequests" -> "/dates/1/attendees"
    [] op = "acceptAttendee"        -> "/dates/1/attendees/1"
    [] op = "rejectAttendee"        -> "/dates/1/attendees/1"

\* the method option each operation passes to withAuthFetch, Null when none
OpMethod(op) ==
  CASE op \in {"createDate", "uploadDateImages", "uploadProfileImages",
               "requestToJoinDate"} -> "POST"
    [] op \in {"updateProfile", "acceptAttendee"} -> "PUT"
    [] op \in {"deleteDateImage", "deleteProfileImage", "cancelJoinRequest",
               "rejectAttendee"} -> "DELETE"
    [] OTHER -> Null

\* variant of Request: the token is sent as a Bearer credential
RequestBearer(path, method, token) ==
  [method |-> IF method = Null THEN "GET" ELSE method,
   url |-> API_BASE_URL \o path,
   authorization |-> IF token = Null THEN "" ELSE "Bearer " \o token]

\* api.ts:56-62: what withAuthFetch hands to fetch for `path`, the method
\* option `method` (fetch sends GET when there is none) and the token read
Request(path, method, token) ==
  [method |-> IF method = Null THEN "GET" ELSE method,
   url |-> API_BASE_URL \o path,
   authorization |-> IF token = Null THEN "" ELSE token]

\* the operations that return the collection field of the body
ListOps == {"fetchDates", "fetchDateImages", "fetchProfileImages", "fetchAttendeeRequests"}

\* api.ts:99-108, 200-209, 254-263, 341-350: await op(...) of a list
\* operation, the service answering 200 with a JSON object whose collection
\* field is `payload`; args: the field when the body has it
ApiListOperation(op, payload) ==
  LET token == getToken(storage) IN
  /\ op \in ListOps
  /\ storage' = storage
  /\ ev' = [NoEvent EXCEPT !.type = "call", !.op = op, !.status = 200,
                           !.outcome = DomainOutcome(op, 200),
                           !.token = IF token = Null THEN "" ELSE token,
                           !.prevToken = token,
                           !.request = Request(OpPath(op), OpMethod(op), token),
                           !.args = IF payload.has THEN <<payload.list>> ELSE <<>>,
                           !.result = OrEmpty(payload)]
  /\ UNCHANGED ApiFrame

\* api.ts:54-70 and the operation around it: await op(...), the service
\* answering with `status`; token: the Authorization header the request carried
ApiOperation(op, status) ==
  LET token == getToken(storage) IN
  /\ ~(op \in ListOps /\ ResponseOk(status))
  /\ storage' = IF AuthExpiredStatus(status) THEN clearToken(storage) ELSE storage
  /\ ev' = [NoEvent EXCEPT !.type = "call", !.op = op, !.status = status,
                           !.outcome = DomainOutcome(op, status),
                           !.token = IF token = Null THEN "" ELSE token,
                           !.prevToken = token,
                           !.request = Request(OpPath(op), OpMethod(op), token)]
  /\ UNCHANGED ApiFrame

ApiNext ==
  \/ ApiGetToken
  \/ ApiGetTokenRejects
  \/ \E token \in Tokens : ApiSetToken(token)
  \/ ApiClearToken
  \/ \E status \in Statuses, header \in HeaderValues : ApiLogin(status, header)
  \/ \E status \in Statuses : ApiRegisterUser(status)
  \/ \E op \in Ops, status \in Statuses : ApiOperation(op, status)
  \/ \E op \in ListOps, payload \in Payloads : ApiListOperation(op, payload)

ApiSpec == ApiInit /\ [][ApiNext]_vars

\* ------------------------------------------- the discover filter by itself
\* index.tsx:36-50,60-62: the Promise.all of a loadDates of the discover
\* screen resolves with three listings, of any ids in any order; the filtered
\* list is displayed
Listing(len, ids) == UNION {[1..n -> 1..ids] : n \in 0..len}

LoadDatesResolves(allDates, ownedDates, requestedDates) ==
  /\ scr["discover"].loading
  /\ scr' = ThenScr(scr, "discover", <<allDates, ownedDates, requestedDates>>)
  /\ ev' = [NoEvent EXCEPT !.type = "loadDates",
                           !.args = <<allDates, ownedDates, requestedDates>>,
                           !.result = Discover(allDates, ownedDates, requestedDates)]
  /\ UNCHANGED <<platformOS, hasLocalStorage, storage, ctxToken, providerPc, focus, form,
                 task, call, logoutPc, events, storeq, netq, flow, sinceWrite>>

DiscoverNext ==
  \E allDates \in Listing(MaxListLen, MaxListId),
     ownedDates \in Listing(MaxExcluded, MaxListId),
     requestedDates \in Listing(MaxExcluded, MaxListId) :
    LoadDatesResolves(allDates, ownedDates, requestedDates)

DiscoverSpec == ApiInit /\ [][DiscoverNext]_vars

\* ---------------------------------------------------------------- claims
\* the token the Token Store holds, as a getToken() now would return it
\* ------------------------------------------------------------------ Screen handlers
\* The handlers of the create-date, profile and date-details screens, one
\* press at a time: each awaits its authenticated operations one after the
\* other and settles the screen's state from the first one that throws.

FlowScreens == {"create", "profile", "date"}
Handlers == {"handleCreate", "handleSave", "handlePickProfileImages",
             "handleDeleteProfileImage", "handlePickImages", "handleDeleteImage",
             "handleRequestJoin", "handleCancelJoin"}

\* the screen each handler belongs to
HandlerScreen(h) ==
  CASE h = "handleCreate" -> "create"
    [] h \in {"handleSave", "handlePickProfileImages", "handleDeleteProfileImage"} -> "profile"
    [] OTHER -> "date"

\* the handlers that start from the images the picker returned
PickHandlers == {"handlePickProfileImages", "handlePickImages"}

\* variant of HandlerOps: handleCreate uploads whatever the selection
HandlerOpsAlwaysUpload(h, n) ==
  CASE h = "handleCreate"             -> <<"createDate", "uploadDateImages">>
    [] h = "handleSave"               -> <<"updateProfile">>
    [] h = "handlePickProfileImages"  -> <<"uploadProfileImages", "fetchProfileImages">>
    [] h = "handleDeleteProfileImage" -> <<"deleteProfileImage">>
    [] h = "handlePickImages"         -> <<"uploadDateImages", "fetchDateImages">>
    [] h = "handleDeleteImage"        -> <<"deleteDateImage">>
    [] h = "handleRequestJoin"        -> <<"requestToJoinDate", "fetchAttendeeStatus">>
    [] h = "handleCancelJoin"         -> <<"cancelJoinRequest", "fetchAttendeeStatus">>

\* the operations handler `h` awaits in turn when every one succeeds, `n`
\* images being selected
HandlerOps(h, n) ==
  CASE h = "handleCreate"             -> IF n > 0 THEN <<"createDate", "uploadDateImages">>
                                                    ELSE <<"createDate">>
    [] h = "handleSave"               -> <<"updateProfile">>
    [] h = "handlePickProfileImages"  -> <<"uploadProfileImages", "fetchProfileImages">>
    [] h = "handleDeleteProfileImage" -> <<"deleteProfileImage">>
    [] h = "handlePickImages"         -> <<"uploadDateImages", "fetchDateImages">>
    [] h = "handleDeleteImage"        -> <<"deleteDateImage">>
    [] h = "handleRequestJoin"        -> <<"requestToJoinDate", "fetchAttendeeStatus">>
    [] h = "handleCancelJoin"         -> <<"cancelJoinRequest", "fetchAttendeeStatus">>

\* variant of FormData: the images go into one part
FormDataOnePart(op, n) ==
  IF op \in {"uploadDateImages", "uploadProfileImages"} /\ n > 0 THEN <<"files">> ELSE <<>>

\* api.ts:212-219, 276-283: the field names of the parts of the multipart
\* body of `op` for `n` images, one formData.append('files', ...) per image
FormData(op, n) ==
  IF op \in {"uploadDateImages", "uploadProfileImages"}
  THEN [i \in 1..n |-> "files"] ELSE <<>>

\* the call of operation `op` as the handler sees it: the request
\* withAuthFetch issues with the token stored now, its multipart parts, and
\* the status it was answered with (NoStatus while awaited)
Issue(op, n) ==
  [op |-> op, request |-> Request(OpPath(op), OpMethod(op), getToken(storage)),
   parts |-> FormData(op, n), status |-> NoStatus]

\* variant of HandlerCatch: handleCreate has no inner try around the upload
HandlerCatchOuterOnly(f, h, op, message) ==
  IF h = "handleCreate"
  THEN IF message = "AUTH_EXPIRED"
       THEN [f EXCEPT !.route = "/(tabs)", !.uploadingImages = FALSE, !.saving = FALSE]
       ELSE [f EXCEPT !.error = message, !.uploadingImages = FALSE, !.saving = FALSE]
  ELSE IF h = "handleSave" THEN [f EXCEPT !.error = message, !.saving = FALSE]
  ELSE [f EXCEPT !.error = message]

\* what the catch block of handler `h` makes of the Error `message`
HandlerCatch(f, h, op, message) ==
  IF h = "handleCreate"
  THEN IF op = "uploadDateImages"
       THEN [f EXCEPT !.alert = "Date created", !.uploadingImages = FALSE,
                      !.route = "/date/1", !.saving = FALSE]
       ELSE IF message = "AUTH_EXPIRED"
       THEN [f EXCEPT !.route = "/(tabs)", !.saving = FALSE]
       ELSE [f EXCEPT !.error = message, !.saving = FALSE]
  ELSE IF h = "handleSave" THEN [f EXCEPT !.error = message, !.saving = FALSE]
  ELSE [f EXCEPT !.error = message]

\* the join statuses the service reports, and Null for a body without
\* joinDateStatus
JoinStatuses == {"NOT_REQUESTED", "ON_WAITLIST", "ACCEPTED", "REJECTED"}
Reported == JoinStatuses \cup {Null}

\* variant of JoinStatusAfter: the status the service reports is not looked at
JoinStatusAfterDefault(h, reported) ==
  IF h = "handleRequestJoin" THEN "ON_WAITLIST" ELSE "NOT_REQUESTED"

\* date/[id].tsx:146, 203, 243: `status.joinDateStatus ?? <default>`, the
\* default being ON_WAITLIST after a request and NOT_REQUESTED otherwise
JoinStatusAfter(h, reported) ==
  IF reported # Null THEN reported
  ELSE IF h = "handleRequestJoin" THEN "ON_WAITLIST" ELSE "NOT_REQUESTED"

\* the state handler `h` leaves when its last operation has succeeded, the
\* last body carrying the join status `reported`
HandlerDone(f, h, reported) ==
  CASE h = "handleCreate" -> [f EXCEPT !.uploadingImages = FALSE, !.route = "/date/1",
                                       !.saving = FALSE]
    [] h = "handleSave" -> [f EXCEPT !.applied = TRUE, !.saving = FALSE]
    [] h = "handleRequestJoin" ->
         [f EXCEPT !.applied = TRUE, !.alert = "Request sent", !.reported = reported,
                   !.joinStatus = JoinStatusAfter(h, reported)]
    [] h = "handleCancelJoin" ->
         [f EXCEPT !.applied = TRUE, !.alert = "Request canceled", !.reported = reported,
                   !.joinStatus = JoinStatusAfter(h, reported)]
    [] OTHER -> [f EXCEPT !.applied = TRUE]

FlowFrame == <<platformOS, hasLocalStorage, ctxToken, providerPc, focus, scr, form, task,
               call, logoutPc, events, storeq, netq, ev, sinceWrite>>

\* the create-date screen's handlePickImages: the picker returned `k` images,
\* appended to the selection (a press of Create keeps the selection it saw)
CreateHandlePickImages(k) ==
  /\ flow.screen = "create"
  /\ flow.step = 0
  /\ flow.images + k <= MaxImages
  /\ flow' = [flow EXCEPT !.images = @ + k]
  /\ UNCHANGED <<storage>>
  /\ UNCHANGED FlowFrame

\* the media library permission was refused to a picking handler
PickerDenied(h) ==
  /\ h \in PickHandlers \cup {"CreateHandlePickImages"}
  /\ flow.screen = (IF h = "CreateHandlePickImages" THEN "create" ELSE HandlerScreen(h))
  /\ flow.step = 0
  /\ flow' = [flow EXCEPT !.error = "Media library permission is required to upload images."]
  /\ UNCHANGED <<storage>>
  /\ UNCHANGED FlowFrame

\* a press that runs handler `h` up to the await of its first operation; `n`:
\* the images the picker returned (picking handlers) or the selection (create)
StartHandler(h, n) ==
  /\ flow.screen = HandlerScreen(h)
  /\ flow.step = 0
  /\ h = "handleRequestJoin" => flow.joinStatus = "NOT_REQUESTED"  \* date/[id].tsx:343
  /\ h = "handleCancelJoin" => flow.joinStatus = "ON_WAITLIST"     \* date/[id].tsx:351
  /\ n = (IF h = "handleCreate" THEN flow.images ELSE IF h \in PickHandlers THEN n ELSE 0)
  /\ h \in PickHandlers => n > 0
  /\ flow' = [flow EXCEPT !.handler = h, !.step = 1,
                          !.files = n,
                          !.requests = <<Issue(HandlerOps(h, n)[1], n)>>,
                          !.error = IF h \in {"handleCreate", "handleSave"} THEN "" ELSE @,
                          !.saving = IF h \in {"handleCreate", "handleSave"} THEN TRUE ELSE @,
                          !.applied = FALSE, !.alert = Null, !.route = Null]
  /\ UNCHANGED <<storage>>
  /\ UNCHANGED FlowFrame

\* the service answers the operation the handler awaits with `status` (and,
\* to fetchAttendeeStatus, a body whose joinDateStatus is `reported`): the
\* handler goes on to its next operation, or settles
HandlerResponse(status, reported) ==
  /\ flow.step > 0
  /\ LET h == flow.handler
         ops == HandlerOps(h, flow.files)
         op == ops[flow.step]
         message == DomainOutcome(op, status)
         answered == [flow EXCEPT !.requests[flow.step].status = status]
     IN /\ storage' = IF AuthExpiredStatus(status) THEN clearToken(storage) ELSE storage
        /\ flow' =
             IF message # "ok"
             THEN [HandlerCatch(answered, h, op, message) EXCEPT !.step = 0]
             ELSE IF flow.step < Len(ops)
             THEN [answered EXCEPT !.step = @ + 1,
                     !.uploadingImages = IF h = "handleCreate" THEN TRUE ELSE @,
                     !.requests = Append(@, Issue(ops[flow.step + 1], flow.files))]
             ELSE [HandlerDone(answered, h, reported) EXCEPT !.step = 0]
  /\ UNCHANGED FlowFrame

\* date/[id].tsx:140-148: the fetchAttendeeStatus of the mount effect
\* settles; a failure is ignored
StatusLoaded(status, reported) ==
  /\ flow.screen = "date"
  /\ ~flow.statusLoaded
  /\ storage' = IF AuthExpiredStatus(status) THEN clearToken(storage) ELSE storage
  /\ flow' = IF DomainOutcome("fetchAttendeeStatus", status) = "ok"
             THEN [flow EXCEPT !.statusLoaded = TRUE, !.reported = reported,
                               !.joinStatus = JoinStatusAfter("mount", reported)]
             ELSE [flow EXCEPT !.statusLoaded = TRUE]
  /\ UNCHANGED FlowFrame

FlowInit ==
  /\ platformOS \in {"web", "native"}
  /\ hasLocalStorage \in BOOLEAN
  /\ platformOS = "native" => ~hasLocalStorage
  /\ \E t \in Tokens \cup {Null} :
       storage = setToken([localStorage |-> Null, secureStore |-> Null], t)
  /\ ctxToken = Null
  /\ providerPc = "done"
  /\ focus = "discover"
  /\ scr = [s \in Screens |-> InitScreen(s)]
  /\ form = [s \in FormScreens |-> InitForm]
  /\ task = [s \in Screens |-> [k \in Slots |-> "free"]]
  /\ call = [s \in Screens |-> [k \in Slots |-> IdleGroup]]
  /\ logoutPc = "idle"
  /\ events = 0
  /\ storeq = <<>>
  /\ netq = <<>>
  /\ flow \in {InitFlow(s) : s \in FlowScreens}
  /\ sinceWrite = TRUE
  /\ ev = NoEvent

FlowNext ==
  \/ \E k \in 1..MaxImages : CreateHandlePickImages(k)
  \/ \E h \in PickHandlers \cup {"CreateHandlePickImages"} : PickerDenied(h)
  \/ \E h \in Handlers, n \in 0..MaxImages : StartHandler(h, n)
  \/ \E status \in Statuses, reported \in Reported : HandlerResponse(status, reported)
  \/ \E status \in Statuses, reported \in Reported : StatusLoaded(status, reported)

FlowSpec == FlowInit /\ [][FlowNext]_vars

StoredToken == getToken(storage)

\* C1 (Spec): when an authenticated call that got a 401 or 403 response
\* resolves, the Token Store holds no token (getToken resolves to null),
\* whatever it held before and whatever else is in progress.
C1_ExpiredCallLeavesStoreAbsent ==
  (ev.type = "call" /\ ev.status \in {401, 403}) => StoredToken = Null

\* C1 witness: on the native branch a my-dates request that carried the stored
\* token got a 403, and the screen's catch block has handled it
C1_Witness ==
  /\ ev.type = "call" /\ ev.status = 403 /\ ev.screen = "myDates"
  /\ platformOS = "native" /\ Truthy(ctxToken)

\* C2 (ApiSpec): every operation built on withAuthFetch that receives 401 or
\* 403 fails with AUTH_EXPIRED, never with a 'Failed to ...' message.
C2_ExpiredStatusGivesAuthExpired ==
  (ev.type = "call" /\ ev.status \in {401, 403})
    => (ev.outcome = "AUTH_EXPIRED" /\ ev.outcome \notin FailMessages)

\* C2 witness: createDate, sent with a stored token, received a 403
C2_Witness ==
  ev.type = "call" /\ ev.op = "createDate" /\ ev.status = 403 /\ Truthy(ev.token)

\* C3 as stated (Spec): when login() returns token T after a success response
\* carrying the Authorization header T, the Token Store holds T.
C3_LoginStoresToken ==
  ev.type = "login" => (Truthy(ev.token) /\ StoredToken = ev.token)

\* C3 amended (Spec): when login() returns T, T is the header's token, and
\* where the platform storage is available the Token Store holds T.
C3_LoginStoresTokenWhereStorage ==
  ev.type = "login" => (Truthy(ev.token) /\ (StorageAvailable => StoredToken = ev.token))

\* C3 witness: login returned t2 on the native branch and the store holds it
C3_Witness ==
  ev.type = "login" /\ ev.token = "t2" /\ platformOS = "native" /\ StoredToken = "t2"

\* C4 (Spec): the Token Store and the Auth Context never hold two different
\* non-null tokens at the same time.
C4_OneTokenValue ==
  (Truthy(StoredToken) /\ Truthy(ctxToken)) => StoredToken = ctxToken

\* C5 (Spec): once a screen's catch block has handled an AUTH_EXPIRED failure
\* of an authenticated call, the Auth Context token is null.
C5_AuthExpiredClearsContext ==
  (ev.type = "call" /\ ev.outcome = "AUTH_EXPIRED" /\ ev.screen # Null)
    => ctxToken = Null

\* C6 (Spec): when the profile screen's Log out action has completed
\* (clearToken, then navigation), the Auth Context token is null and the Token
\* Store holds no token.
C6_LogoutClearsContextAndStore ==
  ev.type = "logout" => (ctxToken = Null /\ StoredToken = Null)

\* C7 (Spec): when handleLogin invokes onSuccess, the Auth Context token
\* equals the token login returned.
C7_ContextHoldsLoginTokenAtOnSuccess ==
  ev.type = "onSuccess" => ctxToken = ev.token

\* C8 (ApiSpec): an operation built on withAuthFetch that receives a
\* non-success status other than 401/403 fails with the 'Failed to ...' message
\* of that operation and of no other, and the call leaves storage as it was.
C8_OtherFailureNamesOperation ==
  [][(ev'.type = "call" /\ ev'.status \in HttpStatuses
        /\ ~ResponseOk(ev'.status) /\ ev'.status \notin {401, 403})
       => /\ ev'.outcome = FailMessage(ev'.op)
          /\ \A op \in Ops \ {ev'.op} : FailMessage(op) # ev'.outcome
          /\ storage' = storage]_vars

\* C8 witness: updateProfile received a 500 and the store still holds a token
C8_Witness ==
  ev.type = "call" /\ ev.op = "updateProfile" /\ ev.status = 500 /\ Truthy(StoredToken)

\* C9 (ApiSpec): storage comes to hold a token only in a login (or in a direct
\* setToken call); a login that stores one got a success response carrying a
\* token; a login that failed, and every other operation, leaves storage
\* exactly as it was unless it clears it.
C9_OnlyLoginWritesToken ==
  [][/\ (storage' # storage /\ storage' # clearToken(storage))
          => ev'.type \in {"login", "setToken"}
     /\ ev'.type = "login" => (ResponseOk(ev'.status) /\ Truthy(ev'.token))
     /\ ev'.type \in {"loginFailed", "register"} => storage' = storage]_vars

\* C9 witness: a login got a success response without an Authorization
\* header, failed, and the token stored before is still there
C9_Witness ==
  /\ ev.type = "loginFailed" /\ ev.status = 200 /\ ev.token = Null
  /\ ev.outcome = "Missing auth token." /\ StoredToken = "t1"

\* C10 as stated (ApiSpec): a getToken() that follows a setToken(token)
\* returns the token set, in every environment.
C10_SetThenGet ==
  (ev.type = "getToken" /\ ev.prev = "setToken") => ev.token = ev.prevToken

\* C10 amended (ApiSpec): a getToken() that follows a setToken(token) returns
\* the token set, on the native branch and on the web branch with localStorage.
C10_SetThenGetWhereStorage ==
  (ev.type = "getToken" /\ ev.prev = "setToken" /\ StorageAvailable)
    => ev.token = ev.prevToken

\* C10 witness: on the web branch, setToken("t2") then getToken() gave "t2"
C10_Witness ==
  /\ ev.type = "getToken" /\ ev.prev = "setToken" /\ ev.prevToken = "t2"
  /\ ev.token = "t2" /\ platformOS = "web"

\* C11 (ApiSpec): after a clearToken() the store holds no token, whatever it
\* held before (a token or nothing), and a getToken() that follows a
\* clearToken() returns null.
C11_ClearThenGet ==
  /\ ev.type = "clearToken" => StoredToken = Null
  /\ (ev.type = "getToken" /\ ev.prev = "clearToken") => ev.token = Null

\* C11 witness: on the native branch a clearToken() removed the stored "t1"
C11_Witness ==
  /\ ev.type = "clearToken" /\ ev.prevToken = "t1" /\ StoredToken = Null
  /\ platformOS = "native"

\* C12 (ApiSpec): when the platform storage is unavailable getToken() resolves
\* to null and never rejects, on the web branch (localStorage undefined) and
\* on the native branch (the secure-store read fails) alike.
C12_GetTokenSignalsAbsence ==
  /\ (ev.type = "getToken" /\ ~StorageAvailable) => ev.token = Null
  /\ ev.type # "getTokenRejected"

\* C13 (Spec): a call of an authenticated operation issues its network request
\* only in the step in which its own Token Store read, made earlier, completes
\* (it is the oldest pending Token Store call and leaves the queue), and the
\* request carries what that read returned.
C13_ReadBeforeRequest ==
  [][\A s \in Screens, k \in Slots, i \in 1..MaxReq :
       LET c == Call(s, k, i)
           issued == Among(netq', c, Len(netq')) /\ ~Among(netq, c, Len(netq))
           token == getToken(storage)
       IN issued =>
            /\ call[s][k][i].st = "getToken"
            /\ storeq # <<>> /\ Head(storeq) = c
            /\ ~Among(storeq', c, Len(storeq'))
            /\ call'[s][k][i].st = "fetch"
            /\ call'[s][k][i].tok = (IF token = Null THEN "" ELSE token)]_vars

\* C13 witness: on the native branch a request is in flight that carries the
\* token its call read, while the read of the next call is still pending
C13_Witness ==
  /\ platformOS = "native"
  /\ netq # <<>> /\ storeq # <<>>
  /\ LET c == Head(netq) IN
       call[c.s][c.k][c.i].st = "fetch" /\ call[c.s][c.k][c.i].tok = "t1"
  /\ Head(storeq).h = "call"

\* C14 (ApiSpec): an operation that passes a path and no method option issues
\* a GET to the base URL followed by the path, with the Authorization header
\* equal to the token its getToken() returned, or "" when that was null.
C14_GetRequestCarriesRawToken ==
  (ev.type = "call" /\ OpMethod(ev.op) = Null) =>
    /\ ev.request.method = "GET"
    /\ ev.request.url = API_BASE_URL \o OpPath(ev.op)
    /\ ev.request.authorization = (IF ev.prevToken = Null THEN "" ELSE ev.prevToken)
    /\ ev.prevToken \in Tokens \cup {Null}

\* C14 witness: fetchDates with "t1" stored issued
\* GET http://host:8080/dates?filter=all with Authorization: t1
C14_Witness ==
  /\ ev.type = "call" /\ ev.op = "fetchDates" /\ ev.prevToken = "t1"
  /\ ev.request = [method |-> "GET", url |-> "http://host:8080/dates?filter=all",
                   authorization |-> "t1"]

\* C15 (DiscoverSpec): the discover screen displays exactly the events of the
\* 'all' listing whose ids are in neither the 'owned' nor the 'requested'
\* listing, in the order of the 'all' listing.
C15_DiscoverExcludesOwnedAndRequested ==
  ev.type = "loadDates" =>
    LET excluded(id) == \/ \E j \in 1..Len(ev.args[2]) : ev.args[2][j] = id
                        \/ \E j \in 1..Len(ev.args[3]) : ev.args[3][j] = id
    IN /\ scr["discover"].data = SelectSeq(ev.args[1], LAMBDA id : ~excluded(id))
       /\ ~scr["discover"].loading

\* C15 witness: all = [1,2,3], owned = [2], requested = [3] displays [1]
C15_Witness ==
  /\ ev.type = "loadDates"
  /\ ev.args = << <<1, 2, 3>>, <<2>>, <<3>> >>
  /\ scr["discover"].data = <<1>>

\* C16: when handleCreate has run to its end and its createDate succeeded, it
\* issued no upload request if no image was selected, and otherwise exactly
\* one, a POST whose multipart body has one part named 'files' per image.
C16_OneUploadWithOnePartPerImage ==
  LET uploads == {i \in 1..Len(flow.requests) : flow.requests[i].op = "uploadDateImages"} IN
  (flow.handler = "handleCreate" /\ flow.step = 0 /\ ResponseOk(flow.requests[1].status))
    => /\ Cardinality(uploads) = (IF flow.files = 0 THEN 0 ELSE 1)
       /\ \A i \in uploads :
            /\ flow.requests[i].request.method = "POST"
            /\ Len(flow.requests[i].parts) = flow.files
            /\ \A p \in 1..Len(flow.requests[i].parts) : flow.requests[i].parts[p] = "files"

\* C16 witnesses: a create with two images that uploaded them, and one with none
C16_Witness ==
  /\ flow.handler = "handleCreate" /\ flow.step = 0 /\ flow.files = MaxImages
  /\ Len(flow.requests) = 2 /\ ResponseOk(flow.requests[2].status)
  /\ flow.route = "/date/1"

\* C17: the error text a screen shows is never the literal AUTH_EXPIRED,
\* whichever handler's operation was answered with an expired session.
C17_AuthExpiredNeverShown == flow.error # "AUTH_EXPIRED"

\* C18: once AuthProvider's mount refresh has completed and no login is in
\* progress, the step in which a screen's focus (or mount) effect has read the
\* Token Store leaves the Auth Context token equal to the stored token.
C18_FocusRefreshesContext ==
  [][\A s \in FormScreens, k \in Slots :
       (/\ providerPc = "done"
        /\ \A f \in FormScreens : form[f].pc = "idle"
        /\ task[s][k] = "authRead" /\ task'[s][k] # "authRead")
         => ctxToken' = getToken(storage')]_vars

\* C19: an invocation of a domain operation issues one request and no more.
\* A call of an authenticated operation enters the network once, from the
\* continuation of its getToken(), and once its request is issued it never
\* returns to an earlier step, whatever the answer; a login whose request was
\* answered with a failure is over and has no request outstanding.
C19_OneRequestPerInvocation ==
  [][/\ \A s \in Screens, k \in Slots, i \in 1..MaxReq :
          LET inFlight(q) == Cardinality({j \in 1..Len(q) : q[j] = Call(s, k, i)}) IN
          /\ inFlight(netq') <= 1
          /\ inFlight(netq') > inFlight(netq) => call[s][k][i].st = "getToken"
          /\ call[s][k][i].st \in {"fetch", "clearToken"}
               => call'[s][k][i].st \notin {"getToken"}
          /\ call[s][k][i].st = "clearToken" => call'[s][k][i].st # "fetch"
     /\ ev'.type = "loginFailed" => form'[ev'.screen].pc = "idle"
     /\ \A s \in FormScreens :
          form[s].pc \notin {"idle", "fetch"} => form'[s].pc # "fetch"]_vars

\* C19 witness: a login request was answered 401 and the form is idle again
C19_Witness ==
  /\ ev.type = "loginFailed" /\ ev.status = 401
  /\ ev.screen = "discover" /\ form["discover"].pc = "idle"

\* C20: a list operation answered with success and a body without the
\* collection field resolves, and with the empty list.
C20_MissingCollectionIsEmpty ==
  (ev.type = "call" /\ ev.op \in ListOps /\ ResponseOk(ev.status) /\ ev.args = <<>>)
    => (ev.outcome = "ok" /\ ev.result = <<>>)

\* C20 witness: fetchAttendeeRequests got a success body without dateAttendees
C20_Witness ==
  /\ ev.type = "call" /\ ev.op = "fetchAttendeeRequests" /\ ev.status = 200
  /\ ev.args = <<>> /\ ev.outcome = "ok" /\ ev.result = <<>>

\* C21: in the state the catch block of the discover screen's loadDates leaves
\* after an AUTH_EXPIRED failure, the screen's token and the Auth Context
\* token are null, no dates are displayed, the error text is empty and
\* loading is false.
C21_DiscoverClearsStateOnExpiry ==
  (ev.type = "call" /\ ev.outcome = "AUTH_EXPIRED" /\ ev.screen = "discover")
    => /\ scr["discover"].token = Null
       /\ ctxToken = Null
       /\ scr["discover"].data = <<>>
       /\ scr["discover"].error = ""
       /\ ~scr["discover"].loading

\* C21 witness: the catch block ran for a 403 after the provider had published
\* the stored token
C21_Witness ==
  /\ ev.type = "call" /\ ev.outcome = "AUTH_EXPIRED" /\ ev.screen = "discover"
  /\ ev.status = 403 /\ providerPc = "done" /\ ctxToken = Null

C24_ExpiryAmongThreeLogsOut ==
  [][\A k \in Slots, i \in 1..MaxReq :
       (/\ call["discover"][k][i].st = "clearToken"
        /\ call'["discover"][k][i].st # "clearToken")
         => (scr'["discover"].token = Null /\ ctxToken' = Null)]_vars

\* C25: on the discover and my-dates screens loading is true in every state
\* in which a loadDates call is in progress, and it is false in the state
\* where the last one in progress has finished.
C25_LoadingWhileInFlight ==
  [][\A s \in FormScreens :
       /\ (\E k \in Slots : task'[s][k] = "await") => scr'[s].loading
       /\ ((\E k \in Slots : task[s][k] = "await") /\ ~(\E k \in Slots : task'[s][k] = "await"))
            => ~scr'[s].loading]_vars

\* C26: the step in which a refreshAuth of the discover or my-dates screen
\* has read the Token Store starts the listing requests exactly when the token
\* read is present; when it is absent the step issues nothing, leaves loading
\* false and the screen's token empty, so that the login form is rendered.
C26_RefreshAuthLoadsOnlyWithToken ==
  [][\A s \in FormScreens, k \in Slots :
       (task[s][k] = "authRead" /\ task'[s][k] # "authRead")
         => /\ (\E i \in 1..MaxReq : call'[s][k][i].st = "getToken") <=> Truthy(StoredToken)
            /\ ~Truthy(StoredToken)
                 => /\ call' = call /\ netq' = netq
                    /\ \A j \in 1..Len(storeq') : storeq'[j] \in {storeq[n] : n \in 1..Len(storeq)}
                    /\ ~scr'[s].loading
                    /\ ~Truthy(scr'[s].token)]_vars

\* C26 witness: refreshAuth of the discover screen read an empty store
C26_Witness ==
  /\ ev.type = "refreshAuth" /\ ev.screen = "discover" /\ ~Truthy(ev.token)
  /\ ~scr["discover"].loading /\ scr["discover"].token = Null
  /\ netq = <<>>

\* C27 as stated: a LoginForm starts an attempt only while its isLoggingIn is
\* false and sets it; when an attempt ends isLoggingIn is false; every failed
\* attempt leaves its message as the form's error text and invokes no
\* onSuccess.
C27_FailedAttemptSetsError ==
  [][/\ \A s \in FormScreens :
          /\ (form[s].pc = "idle" /\ form'[s].pc # "idle")
               => (~form[s].isLoggingIn /\ form'[s].isLoggingIn)
          /\ (form[s].pc # "idle" /\ form'[s].pc = "idle") => ~form'[s].isLoggingIn
     /\ ev'.type = "loginFailed"
          => /\ form'[ev'.screen].error = ev'.outcome /\ ev'.outcome # ""
             /\ \A k \in Slots : task'[ev'.screen][k] = task[ev'.screen][k]
             /\ ctxToken' = ctxToken]_vars

\* C27 amended: a LoginForm starts an attempt only while its isLoggingIn is
\* false and sets it; while the attempt of a mounted form is in progress
\* isLoggingIn is true, so that no second one can start; when an attempt ends
\* isLoggingIn is false; a failed attempt invokes no onSuccess (no token read
\* of the screen is started, the Auth Context is not touched) and, when the
\* form that made it is still mounted, leaves its message as the error text.
C27_OneLoginAttemptAtATime ==
  [][/\ \A s \in FormScreens :
          /\ (form[s].pc = "idle" /\ form'[s].pc # "idle")
               => (~form[s].isLoggingIn /\ form'[s].isLoggingIn)
          /\ (form'[s].pc # "idle" /\ form'[s].live) => form'[s].isLoggingIn
          /\ (form[s].pc # "idle" /\ form'[s].pc = "idle") => ~form'[s].isLoggingIn
     /\ ev'.type = "loginFailed"
          => /\ form[ev'.screen].live
                  => (form'[ev'.screen].error = ev'.outcome /\ ev'.outcome # "")
             /\ \A k \in Slots : task'[ev'.screen][k] = task[ev'.screen][k]
             /\ ctxToken' = ctxToken]_vars

\* C27 witness: an attempt of the discover form failed with the service's 401,
\* and the form shows the message with its button back
C27_Witness ==
  /\ ev.type = "loginFailed" /\ ev.screen = "discover"
  /\ form["discover"].error = "Invalid credentials."
  /\ ~form["discover"].isLoggingIn

\* C28: on the date screen handleRequestJoin starts only while joinStatus is
\* NOT_REQUESTED and handleCancelJoin only while it is ON_WAITLIST; when one
\* of them ends in success joinStatus is the status the service reported, or
\* without one ON_WAITLIST after a request and NOT_REQUESTED after a cancel;
\* when it ends in failure joinStatus is what it was.
C28_JoinCycle ==
  [][/\ (flow.step = 0 /\ flow'.step = 1 /\ flow'.handler = "handleRequestJoin")
          => flow.joinStatus = "NOT_REQUESTED"
     /\ (flow.step = 0 /\ flow'.step = 1 /\ flow'.handler = "handleCancelJoin")
          => flow.joinStatus = "ON_WAITLIST"
     /\ (/\ flow.handler \in {"handleRequestJoin", "handleCancelJoin"}
         /\ flow.step > 0 /\ flow'.step = 0)
          => IF flow'.applied
             THEN flow'.joinStatus =
                    (IF flow'.reported # Null THEN flow'.reported
                     ELSE IF flow.handler = "handleRequestJoin" THEN "ON_WAITLIST"
                     ELSE "NOT_REQUESTED")
             ELSE flow'.joinStatus = flow.joinStatus /\ flow'.error # ""]_vars

\* C28 witness: a cancel, which can start only from ON_WAITLIST, succeeded
\* with a body that has no joinDateStatus
C28_Witness ==
  /\ flow.handler = "handleCancelJoin" /\ flow.step = 0 /\ flow.applied
  /\ flow.reported = Null /\ flow.joinStatus = "NOT_REQUESTED"
  /\ flow.alert = "Request canceled"

\* C29: in the state handleCreate leaves when it ends, saving and
\* uploadingImages are false; if its createDate succeeded the screen has
\* navigated to the created date and shows no error text, whatever became of
\* the upload; if createDate failed it has not navigated there.
C29_UploadFailureKeepsCreation ==
  [][(flow.handler = "handleCreate" /\ flow.step > 0 /\ flow'.step = 0)
       => /\ ~flow'.saving /\ ~flow'.uploadingImages
          /\ IF ResponseOk(flow'.requests[1].status)
             THEN flow'.route = "/date/1" /\ flow'.error = ""
             ELSE flow'.route # "/date/1"]_vars

\* C29 witness: the upload after a successful createDate was answered 401
C29_Witness ==
  /\ flow.handler = "handleCreate" /\ flow.step = 0
  /\ Len(flow.requests) = 2 /\ flow.requests[1].status = 200
  /\ flow.requests[2].status = 401
  /\ flow.route = "/date/1" /\ flow.alert = "Date created" /\ flow.error = ""

\* C30: in every state the tab bar is displayed, and the My Dates and Profile
\* tabs are linked, exactly when the Auth Context token is neither null nor
\* the empty string; and a step that moves the focus to one of these two tabs
\* starts from a state where it is neither.
C30_TabsFollowContextToken ==
  [][/\ (TabBarDisplay' = "flex") <=> (ctxToken' # Null /\ ctxToken' # "")
     /\ \A s \in {"myDates", "profile"} :
          (TabHref(s)' # Null) <=> (ctxToken' # Null /\ ctxToken' # "")
     /\ (focus' # focus /\ focus' \in {"myDates", "profile"})
          => (ctxToken # Null /\ ctxToken # "")]_vars

\* C30 witness: the Profile tab was reached with a token published, and the
\* bar is displayed
C30_Witness ==
  /\ focus = "profile" /\ scr["profile"].mounted
  /\ ctxToken = "t1" /\ TabBarDisplay = "flex" /\ TabHref("myDates") = "default"

====
